---------------------------- MODULE Spec2Model ----------------------------
(* A model of dependabot-approve (src/src/main.rs): the approve run         *)
(* (approve_main), its retrying requests, the status reduction and the     *)
(* interactive selection (handle_confirm / confirm / translate_stdin).     *)
EXTENDS Integers, Sequences, FiniteSets, TLC

VARIABLES
    pc,               \* position of the run
    exit_code,        \* process exit status once pc = "exit"; -1 while running
    force,            \* CLIOptions.force
    dry_run,          \* CLIOptions.dry_run
    quiet,            \* CLIOptions.quiet
    status_username,  \* CLIOptions.status_username: <<>> is None, <<u>> is Some(u)
    filter,           \* CLIOptions.filter: <<>> is None, <<S>> is Some(S)
    prs,              \* approve_main: the PRs still to reconcile (head = current)
    res,              \* the Response the last retrying request returned
    statuses,         \* get_latest_status: the parsed status list
    most_recent,      \* get_latest_status: the fold's result
    with_status,      \* approve_main: the candidates (pr, status)
    presented,        \* the candidate list as printed (lines 138-141)
    confirmation,     \* handle_confirm: what confirm() returned
    idx,              \* 1-based position of the running submit loop
    i,                \* confirm: the loop counter of `for i in 0..5`
    captured,         \* confirm: the line buffer
    ct,               \* *_with_retry: the failure counter
    sends,            \* send attempts of the request in flight
    cur,              \* submit_approval: number of the PR being approved
    calls,            \* PR numbers submit_approval was called for, in order
    posts,            \* PR number of every POST sent to a reviews endpoint
    skipped,          \* selections reported as "Invalid option selected"
    wire,             \* what the transport gave on the last send attempt
    out,              \* the last message printed
    opts_login,       \* ClearJunkOptions.login: <<>> is None, <<l>> is Some(l)
    opts_text,        \* ClearJunkOptions.text: <<>> is None, <<t>> is Some(t)
    fetched,          \* find_junk_reviews: the reviews as parsed (line 214)
    reviews,          \* clear_junk_main: the junk reviews of the current PR
    puts              \* the dismissal requests made: PR, review, how each ended

vars == <<pc, exit_code, force, dry_run, quiet, status_username, filter, prs,
          res, statuses, most_recent, with_status, presented, confirmation,
          idx, i, captured, ct, sends, cur, calls, posts, skipped, wire, out,
          opts_login, opts_text, fetched, reviews, puts>>

----------------------------------------------------------------------------
(* Bounds of the model *)

MaxPRs == 2
MaxCands == 3
MaxStatuses == 2
MaxLineLen == 3

(* Program constants *)

MaxTries == 5
ConfirmTries == 5
LastTry == 4
ExitOk == 0
ExitErr == 1
ExitPanic == 101
ExitNoToken == 67
ExitNoInput == 67

----------------------------------------------------------------------------
(* Generic helpers *)

RECURSIVE SeqsUpTo(_, _)
SeqsUpTo(S, n) ==
    IF n = 0 THEN {<<>>}
    ELSE LET shorter == SeqsUpTo(S, n - 1)
         IN  shorter \cup {Append(s, x) : s \in {t \in shorter : Len(t) = n - 1}, x \in S}

None == <<>>
Some(x) == <<x>>

----------------------------------------------------------------------------
(* Strings are sequences of one-character strings *)

Newline == "\n"
Digits == {"0", "1", "3"}
Alphabet == {"a", "l", ",", " "} \cup Digits
Lines == SeqsUpTo(Alphabet, MaxLineLen)

Str_all == <<"a", "l", "l">>

DigitVal(c) ==
    CASE c = "0" -> 0 [] c = "1" -> 1 [] c = "2" -> 2 [] c = "3" -> 3
      [] c = "4" -> 4 [] c = "5" -> 5 [] c = "6" -> 6 [] c = "7" -> 7
      [] c = "8" -> 8 [] c = "9" -> 9

IsDigit(c) == c \in {"0", "1", "2", "3", "4", "5", "6", "7", "8", "9"}

IsWhitespace(c) == c \in {" ", Newline, "\t", "\r"}

(* str::trim: strips leading and trailing whitespace *)
RECURSIVE TrimStart(_)
TrimStart(s) ==
    IF s # <<>> /\ IsWhitespace(Head(s)) THEN TrimStart(Tail(s)) ELSE s

RECURSIVE TrimEnd(_)
TrimEnd(s) ==
    IF s # <<>> /\ IsWhitespace(s[Len(s)])
    THEN TrimEnd(SubSeq(s, 1, Len(s) - 1)) ELSE s

Trim(s) == TrimEnd(TrimStart(s))

(* str::split(','): always at least one piece; "" gives [""] *)
RECURSIVE Split(_, _)
Split(s, sep) ==
    IF \A k \in DOMAIN s : s[k] # sep THEN <<s>>
    ELSE LET k == CHOOSE j \in DOMAIN s :
                      s[j] = sep /\ \A m \in 1..(j - 1) : s[m] # sep
         IN  <<SubSeq(s, 1, k - 1)>> \o Split(SubSeq(s, k + 1, Len(s)), sep)

(* str::parse::<usize>: an optional '+', then one or more decimal digits. *)
(* A line of at most MaxLineLen + 1 characters cannot overflow a usize,   *)
(* so the value is computed without a width.                              *)
RECURSIVE DigitsValue(_, _)
DigitsValue(acc, s) ==
    IF s = <<>> THEN acc ELSE DigitsValue(acc * 10 + DigitVal(Head(s)), Tail(s))

ParseUsize(tok) ==
    LET body == IF tok # <<>> /\ Head(tok) = "+" THEN Tail(tok) ELSE tok
    IN  IF body = <<>> \/ \E k \in DOMAIN body : ~IsDigit(body[k])
        THEN None
        ELSE Some(DigitsValue(0, body))

(* usize::saturating_sub *)
saturating_sub(a, b) == IF a >= b THEN a - b ELSE 0

NoConfirmation == [kind |-> "none", selections |-> <<>>]
ConfirmationAll == [kind |-> "All", selections |-> <<>>]
ConfirmationSelect(sel) == [kind |-> "Select", selections |-> sel]

translate_stdin(s) ==
    IF Trim(s) = Str_all THEN Some(ConfirmationAll)
    ELSE LET toks == Split(s, ",")
             parsed == [k \in DOMAIN toks |-> ParseUsize(Trim(toks[k]))]
         IN  IF \E k \in DOMAIN parsed : parsed[k] = None
             THEN None
             ELSE Some(ConfirmationSelect([k \in DOMAIN parsed |-> parsed[k][1]]))

----------------------------------------------------------------------------
(* The status reduction *)

Creators == {"ci", "other"}
States == {"success", "failure"}
(* created_at in minutes from 1970-01-01 0:00 *)
Timestamps == {-1, 0, 1, 2}
GHStatus == [created_at : Timestamps, creator : Creators, state : States]
StatusLists == SeqsUpTo(GHStatus, MaxStatuses)

fold_init == <<0, None>>

status_fold(acc, status) ==
    IF status.created_at > acc[1]
    THEN <<status.created_at, Some(status.state)>>
    ELSE acc

RECURSIVE Fold(_, _)
Fold(acc, s) ==
    IF s = <<>> THEN acc ELSE Fold(status_fold(acc, Head(s)), Tail(s))

FromUser(status_user, s) == s.creator = status_user[1]

(* get_latest_status that folds over every event *)
get_latest_status_unfiltered(list, status_user) == Fold(fold_init, list)

get_latest_status(list, status_user) ==
    IF status_user # None
    THEN Fold(fold_init, SelectSeq(list, LAMBDA s : FromUser(status_user, s)))
    ELSE Fold(fold_init, list)

----------------------------------------------------------------------------
(* The retrying requests *)

HttpStatuses == {200, 404, 500}
is_success(status) == status >= 200 /\ status < 300

TransportError == [kind |-> "err", status |-> 0]
HttpResponse(s) == [kind |-> "resp", status |-> s]
Outcomes == {TransportError} \cup {HttpResponse(s) : s \in HttpStatuses}

NoWire == [kind |-> "none", status |-> 0]
NoRes == [ok |-> FALSE, status |-> 0, attempt |-> 0]
OkRes(status, attempt) == [ok |-> TRUE, status |-> status, attempt |-> attempt]
ErrRes(attempt) == [ok |-> FALSE, status |-> 0, attempt |-> attempt]

(* One iteration of the loop of a *_with_retry function, entered with     *)
(* failure counter c: `outcome` is what send() gave on attempt `attempt`. *)
(* again = TRUE: sleep and loop; otherwise `value` is returned.           *)
(* get_with_retry with ct > 5 for ct >= 5 *)
get_with_retry_six(c, outcome, attempt) ==
    IF outcome.kind = "resp"
    THEN [again |-> FALSE, ct |-> c, value |-> OkRes(outcome.status, attempt)]
    ELSE IF c + 1 > MaxTries
         THEN [again |-> FALSE, ct |-> c + 1, value |-> ErrRes(attempt)]
         ELSE [again |-> TRUE, ct |-> c + 1, value |-> NoRes]

(* get_with_retry that also retries on a 5xx response *)
get_with_retry_5xx(c, outcome, attempt) ==
    IF outcome.kind = "resp" /\ outcome.status < 500
    THEN [again |-> FALSE, ct |-> c, value |-> OkRes(outcome.status, attempt)]
    ELSE IF c + 1 >= MaxTries
         THEN [again |-> FALSE, ct |-> c + 1, value |-> ErrRes(attempt)]
         ELSE [again |-> TRUE, ct |-> c + 1, value |-> NoRes]

get_with_retry(c, outcome, attempt) ==
    IF outcome.kind = "resp"
    THEN [again |-> FALSE, ct |-> c, value |-> OkRes(outcome.status, attempt)]
    ELSE IF c + 1 >= MaxTries
         THEN [again |-> FALSE, ct |-> c + 1, value |-> ErrRes(attempt)]
         ELSE [again |-> TRUE, ct |-> c + 1, value |-> NoRes]

post_with_retry(c, outcome, attempt) ==
    IF outcome.kind = "resp"
    THEN [again |-> FALSE, ct |-> c, value |-> OkRes(outcome.status, attempt)]
    ELSE IF c + 1 >= MaxTries
         THEN [again |-> FALSE, ct |-> c + 1, value |-> ErrRes(attempt)]
         ELSE [again |-> TRUE, ct |-> c + 1, value |-> NoRes]



----------------------------------------------------------------------------
(* Pull requests *)

Logins == {"Dependabot[bot]", "dependabot-preview[bot]", "some-user"}

to_lowercase(login) ==
    CASE login = "Dependabot[bot]" -> "dependabot[bot]"
      [] OTHER -> login

PullRequest(n, login) == [number |-> n, login |-> login]

PRLists ==
    UNION {{[k \in 1..n |-> PullRequest(k, f[k])] : f \in [1..n -> Logins]} : n \in 0..MaxPRs}

IsDependabot(pr) ==
    \/ to_lowercase(pr.login) = "dependabot-preview[bot]"
    \/ to_lowercase(pr.login) = "dependabot[bot]"

Candidate(pr, status) == [pr |-> pr, status |-> status]

(* What reading and parsing a response body can give besides a value *)
ReadError == [kind |-> "ReadError", value |-> <<>>]
BadJson == [kind |-> "BadJson", value |-> <<>>]
Json(v) == [kind |-> "json", value |-> v]
Bodies(values) == {Json(v) : v \in values} \cup {ReadError, BadJson}

----------------------------------------------------------------------------
(* The state after construction: the options are parsed, nothing has run *)

opts == <<force, dry_run, quiet, status_username, filter>>
request == <<res, ct, sends, wire>>
confirm_locals == <<i, captured>>
history == <<calls, posts, skipped>>
junk == <<opts_login, opts_text, fetched, reviews, puts>>

(* The cleanup state of a run that is not a cleanup run *)
NoJunk ==
    /\ opts_login = None /\ opts_text = None
    /\ fetched = <<>> /\ reviews = <<>> /\ puts = <<>>

Quiescent ==
    /\ pc = "get_token" /\ exit_code = -1
    /\ prs = <<>> /\ res = NoRes /\ statuses = <<>> /\ most_recent = fold_init
    /\ with_status = <<>> /\ presented = <<>> /\ confirmation = NoConfirmation
    /\ idx = 1 /\ i = 0 /\ captured = <<>> /\ ct = 0 /\ sends = 0 /\ cur = 0
    /\ calls = <<>> /\ posts = <<>> /\ skipped = <<>> /\ wire = NoWire
    /\ out = ""
    /\ NoJunk

Init ==
    /\ force \in BOOLEAN /\ dry_run \in BOOLEAN /\ quiet \in BOOLEAN
    /\ status_username \in {None, Some("ci")}
    /\ filter \in {None, Some({"success"})}
    /\ Quiescent

Exit(code) == pc' = "exit" /\ exit_code' = code

NewRequest == res' = NoRes /\ ct' = 0 /\ sends' = 0 /\ wire' = NoWire

----------------------------------------------------------------------------
(* approve_main: credential and discovery *)

TokenSources == {"api_key", "key_path", "key_path_unreadable", "none"}

GetToken ==
    /\ pc = "get_token"
    /\ \E src \in TokenSources :
         /\ out' = IF quiet THEN out ELSE "Running approvals"
         /\ IF src = "none" THEN Exit(ExitNoToken)
            ELSE IF src = "key_path_unreadable" THEN Exit(ExitErr)
            ELSE pc' = "get_all_prs" /\ exit_code' = exit_code
    /\ NewRequest
    /\ UNCHANGED <<opts, prs, statuses, most_recent, with_status, presented,
                   confirmation, idx, confirm_locals, cur, history>>
    /\ UNCHANGED junk

GetAllPrsSend ==
    /\ pc = "get_all_prs"
    /\ \E o \in Outcomes :
         LET r == get_with_retry(ct, o, sends + 1)
         IN  /\ sends' = sends + 1 /\ wire' = o
             /\ ct' = r.ct /\ res' = r.value
             /\ pc' = IF r.again THEN pc ELSE "got_all_prs"
    /\ UNCHANGED <<exit_code, opts, prs, statuses, most_recent, with_status,
                   presented, confirmation, idx, confirm_locals, cur, history, out>>
    /\ UNCHANGED junk

GetAllPrsHandle ==
    /\ pc = "got_all_prs"
    /\ \E body \in Bodies(PRLists) :
         IF ~res.ok THEN
             /\ Exit(ExitPanic)
             /\ UNCHANGED <<prs, request, out>>
         ELSE IF ~is_success(res.status) THEN
             /\ Exit(ExitErr)
             /\ out' = "Failed to get pull requests"
             /\ UNCHANGED <<prs, request>>
         ELSE IF body \in {ReadError, BadJson} THEN
             /\ Exit(ExitPanic)
             /\ UNCHANGED <<prs, request, out>>
         ELSE
             /\ prs' = SelectSeq(body.value, IsDependabot)
             /\ pc' = IF prs' = <<>> THEN "present" ELSE "get_status"
             /\ NewRequest
             /\ UNCHANGED <<exit_code, out>>
    /\ UNCHANGED <<opts, statuses, most_recent, with_status, presented,
                   confirmation, idx, confirm_locals, cur, history>>
    /\ UNCHANGED junk

----------------------------------------------------------------------------
(* approve_main: reconciliation *)

GetStatusSend ==
    /\ pc = "get_status"
    /\ \E o \in Outcomes :
         LET r == get_with_retry(ct, o, sends + 1)
         IN  /\ sends' = sends + 1 /\ wire' = o
             /\ ct' = r.ct /\ res' = r.value
             /\ pc' = IF r.again THEN pc ELSE "got_status"
    /\ UNCHANGED <<exit_code, opts, prs, statuses, most_recent, with_status,
                   presented, confirmation, idx, confirm_locals, cur, history, out>>
    /\ UNCHANGED junk

GetStatusHandle(bodies) ==
    /\ pc = "got_status"
    /\ \E body \in Bodies(bodies) :
         IF ~res.ok \/ body = ReadError THEN
             /\ Exit(ExitErr)
             /\ UNCHANGED <<statuses, most_recent>>
         ELSE IF body = BadJson THEN
             /\ Exit(ExitPanic)
             /\ UNCHANGED <<statuses, most_recent>>
         ELSE
             /\ statuses' = body.value
             /\ most_recent' = get_latest_status(body.value, status_username)
             /\ pc' = "status_return"
             /\ exit_code' = exit_code
    /\ UNCHANGED <<opts, prs, request, with_status, presented, confirmation,
                   idx, confirm_locals, cur, history, out>>
    /\ UNCHANGED junk

(* StatusReturn for a loop that is left after its first PR *)
StatusReturn_first ==
    /\ pc = "status_return"
    /\ with_status' =
         IF most_recent[2] # None
         THEN Append(with_status, Candidate(Head(prs), most_recent[2][1]))
         ELSE with_status
    /\ prs' = Tail(prs)
    /\ statuses' = <<>> /\ most_recent' = fold_init
    /\ pc' = "present"
    /\ NewRequest
    /\ UNCHANGED <<exit_code, opts, presented, confirmation, idx,
                   confirm_locals, cur, history, out>>
    /\ UNCHANGED junk

StatusReturn ==
    /\ pc = "status_return"
    /\ with_status' =
         IF most_recent[2] # None
         THEN Append(with_status, Candidate(Head(prs), most_recent[2][1]))
         ELSE with_status
    /\ prs' = Tail(prs)
    /\ statuses' = <<>> /\ most_recent' = fold_init
    /\ pc' = IF prs' = <<>> THEN "present" ELSE "get_status"
    /\ NewRequest
    /\ UNCHANGED <<exit_code, opts, presented, confirmation, idx,
                   confirm_locals, cur, history, out>>
    /\ UNCHANGED junk

Present ==
    /\ pc = "present"
    /\ LET kept == IF filter # None
                   THEN SelectSeq(with_status, LAMBDA c : c.status \in filter[1])
                   ELSE with_status
       IN  /\ with_status' = kept
           /\ IF kept = <<>> THEN
                  /\ Exit(ExitOk)
                  /\ out' = "No dependabot PRs found"
                  /\ UNCHANGED presented
              ELSE
                  /\ presented' = kept
                  /\ out' = IF force THEN "Dependabot PRs found" ELSE "Please enter"
                  /\ pc' = IF force THEN "force_loop" ELSE "confirm_read"
                  /\ exit_code' = exit_code
    /\ UNCHANGED <<opts, prs, request, statuses, most_recent, confirmation,
                   idx, confirm_locals, cur, history>>
    /\ UNCHANGED junk

----------------------------------------------------------------------------
(* submit_approval *)

(* The loop submit_approval returns to *)
Loop ==
    IF force THEN "force_loop"
    ELSE IF confirmation.kind = "All" THEN "all_loop" ELSE "select_loop"

(* Lines 335-338: whether the call returns before building a request *)
DryRunReturn(dry, q) == ~q /\ dry

(* The call of submit_approval(c, pr, dry_run, quiet) from a loop at idx, *)
(* up to its first await                                                  *)
SubmitApprovalCall(pr) ==
    /\ calls' = Append(calls, pr.number)
    /\ IF DryRunReturn(dry_run, quiet) THEN
           /\ out' = "Dry run approval"
           /\ idx' = idx + 1
           /\ UNCHANGED <<pc, cur, request>>
       ELSE
           /\ pc' = "post"
           /\ cur' = pr.number
           /\ NewRequest
           /\ UNCHANGED <<idx, out>>
    /\ UNCHANGED <<exit_code, posts, skipped>>

PostSend ==
    /\ pc = "post"
    /\ \E o \in Outcomes :
         LET r == post_with_retry(ct, o, sends + 1)
         IN  /\ sends' = sends + 1 /\ wire' = o
             /\ ct' = r.ct /\ res' = r.value
             /\ pc' = IF r.again THEN pc ELSE "posted"
    /\ posts' = Append(posts, cur)
    /\ UNCHANGED <<exit_code, opts, prs, statuses, most_recent, with_status,
                   presented, confirmation, idx, confirm_locals, cur, calls,
                   skipped, out>>
    /\ UNCHANGED junk

(* What submit_approval returns once post_with_retry returned r: the `?` *)
(* of line 348 passes a transport error on, any response gives Ok(())   *)
submit_approval_result_strict(r) ==
    IF r.ok /\ is_success(r.status) THEN "Ok" ELSE "Err"

(* submit_approval that swallows a transport error *)
submit_approval_result_lenient(r) == "Ok"

submit_approval_result(r) == IF r.ok THEN "Ok" ELSE "Err"

(* Lines 348-358, and the `?` of the calling loop *)
PostHandle ==
    /\ pc = "posted"
    /\ IF submit_approval_result(res) = "Err" THEN
           /\ Exit(ExitErr)
           /\ UNCHANGED <<idx, cur, out>>
       ELSE
           /\ out' = IF quiet THEN out
                     ELSE IF is_success(res.status) THEN "Successfully approved"
                     ELSE "Failed to approve"
           /\ idx' = idx + 1
           /\ cur' = 0
           /\ pc' = Loop
           /\ exit_code' = exit_code
    /\ UNCHANGED <<opts, prs, request, statuses, most_recent, with_status,
                   presented, confirmation, confirm_locals, history>>
    /\ UNCHANGED junk

----------------------------------------------------------------------------
(* approve_main with --force, and handle_confirm *)

(* ForceNext for a loop that stops one element early *)
ForceNext_short ==
    /\ pc = "force_loop"
    /\ IF idx >= Len(with_status) THEN
           /\ Exit(ExitOk)
           /\ UNCHANGED <<idx, cur, request, history, out>>
       ELSE SubmitApprovalCall(with_status[idx].pr)
    /\ UNCHANGED <<opts, prs, statuses, most_recent, with_status, presented,
                   confirmation, confirm_locals>>
    /\ UNCHANGED junk

ForceNext ==
    /\ pc = "force_loop"
    /\ IF idx > Len(with_status) THEN
           /\ Exit(ExitOk)
           /\ UNCHANGED <<idx, cur, request, history, out>>
       ELSE SubmitApprovalCall(with_status[idx].pr)
    /\ UNCHANGED <<opts, prs, statuses, most_recent, with_status, presented,
                   confirmation, confirm_locals>>
    /\ UNCHANGED junk

ConfirmReadLine(lines) ==
    /\ pc = "confirm_read"
    /\ \E line \in lines : captured' = captured \o line \o <<Newline>>
    /\ pc' = "confirm_translate"
    /\ UNCHANGED <<exit_code, opts, prs, request, statuses, most_recent,
                   with_status, presented, confirmation, idx, i, cur, history,
                   out>>
    /\ UNCHANGED junk

(* ConfirmLoopContinues for a range of 0..=5 *)
ConfirmLoopContinues_inclusive(k) == k + 1 <= ConfirmTries

(* `for i in 0..5`: whether another iteration follows iteration i *)
ConfirmLoopContinues(k) == k + 1 < ConfirmTries

(* The part of the loop body of confirm after read_line (lines 302-312), *)
(* and the match of handle_confirm when confirm returns (line 275)       *)
ConfirmTranslate ==
    /\ pc = "confirm_translate"
    /\ LET c == translate_stdin(captured)
       IN  IF c # None THEN
               /\ confirmation' = c[1]
               /\ pc' = IF c[1].kind = "All" THEN "all_loop" ELSE "select_loop"
               /\ idx' = 1
               /\ i' = 0 /\ captured' = <<>>
               /\ UNCHANGED <<exit_code, out>>
           ELSE
               /\ IF i = LastTry
                  THEN out' = "Failed to parse input 5 times" /\ captured' = captured
                  ELSE out' = "Unable to parse input" /\ captured' = <<>>
               /\ IF ConfirmLoopContinues(i)
                  THEN pc' = "confirm_read" /\ i' = i + 1 /\ exit_code' = exit_code
                  ELSE Exit(ExitNoInput) /\ i' = i
               /\ UNCHANGED <<confirmation, idx>>
    /\ UNCHANGED <<opts, prs, request, statuses, most_recent, with_status,
                   presented, cur, history>>
    /\ UNCHANGED junk

AllNext ==
    /\ pc = "all_loop"
    /\ IF idx > Len(with_status) THEN
           /\ Exit(ExitOk)
           /\ UNCHANGED <<idx, cur, request, history, out>>
       ELSE SubmitApprovalCall(with_status[idx].pr)
    /\ UNCHANGED <<opts, prs, statuses, most_recent, with_status, presented,
                   confirmation, confirm_locals>>
    /\ UNCHANGED junk

(* slice::get with a 0-based index *)
SliceGet(s, k) == IF k < Len(s) THEN Some(s[k + 1]) ELSE None

(* Line 283: the candidate a typed selection stands for *)
Selected(list, selection) == SliceGet(list, saturating_sub(selection, 1))

SelectNext ==
    /\ pc = "select_loop"
    /\ IF idx > Len(confirmation.selections) THEN
           /\ Exit(ExitOk)
           /\ UNCHANGED <<idx, cur, request, history, out>>
       ELSE LET selection == confirmation.selections[idx]
                got == Selected(with_status, selection)
            IN  IF got # None THEN SubmitApprovalCall(got[1].pr)
                ELSE
                    /\ IF quiet THEN UNCHANGED <<skipped, out>>
                       ELSE /\ skipped' = Append(skipped, selection)
                            /\ out' = "Invalid option selected, skipping"
                    /\ idx' = idx + 1
                    /\ UNCHANGED <<pc, exit_code, cur, request, calls, posts>>
    /\ UNCHANGED <<opts, prs, statuses, most_recent, with_status, presented,
                   confirmation, confirm_locals>>
    /\ UNCHANGED junk

----------------------------------------------------------------------------
(* The approve run, with the operator's lines and the status collections *)
(* drawn from samples                                                    *)

Ev(t, who, st) == [created_at |-> t, creator |-> who, state |-> st]

SampleBodies ==
    { <<>>,
      <<Ev(1, "ci", "success")>>,
      <<Ev(1, "other", "failure")>>,
      <<Ev(1, "ci", "failure"), Ev(2, "other", "success")>>,
      <<Ev(2, "ci", "success"), Ev(2, "ci", "failure")>> }

SampleLines ==
    { Str_all, <<"1">>, <<"0", ",", "3">>, <<"1", ",", "1">>, <<"3">>,
      <<"a">>, <<>> }

Next ==
    \/ GetToken
    \/ GetAllPrsSend
    \/ GetAllPrsHandle
    \/ GetStatusSend
    \/ GetStatusHandle(SampleBodies)
    \/ StatusReturn
    \/ Present
    \/ ForceNext
    \/ ConfirmReadLine(SampleLines)
    \/ ConfirmTranslate
    \/ AllNext
    \/ SelectNext
    \/ PostSend
    \/ PostHandle

Spec == Init /\ [][Next]_vars

----------------------------------------------------------------------------
(* handle_confirm alone: the run stands at the prompt with 1..MaxCands   *)
(* candidates presented, and the operator may type any line over the     *)
(* alphabet                                                              *)

PresentedCandidates(n) ==
    [k \in 1..n |-> Candidate(PullRequest(100 + k, "dependabot-preview[bot]"), "success")]

InitSelect ==
    /\ force = FALSE /\ dry_run \in BOOLEAN /\ quiet \in BOOLEAN
    /\ status_username = None /\ filter = None
    /\ pc = "confirm_read" /\ exit_code = -1
    /\ \E n \in 1..MaxCands : with_status = PresentedCandidates(n)
    /\ presented = with_status
    /\ prs = <<>> /\ res = NoRes /\ statuses = <<>> /\ most_recent = fold_init
    /\ confirmation = NoConfirmation
    /\ idx = 1 /\ i = 0 /\ captured = <<>> /\ ct = 0 /\ sends = 0 /\ cur = 0
    /\ calls = <<>> /\ posts = <<>> /\ skipped = <<>> /\ wire = NoWire
    /\ out = "Please enter"
    /\ NoJunk

NextSelect ==
    \/ ConfirmReadLine(Lines)
    \/ ConfirmTranslate
    \/ AllNext
    \/ SelectNext
    \/ PostSend
    \/ PostHandle

SpecSelect == InitSelect /\ [][NextSelect]_vars

----------------------------------------------------------------------------
(* The reconciliation loop alone: discovery has returned 1..MaxPRs bot   *)
(* PRs, and every status collection is any list of up to MaxStatuses     *)
(* events                                                                *)

BotPRs(n) == [k \in 1..n |-> PullRequest(k, "Dependabot[bot]")]

InitStatus ==
    /\ force = TRUE /\ dry_run = TRUE /\ quiet = FALSE
    /\ status_username \in {None, Some("ci"), Some("other")}
    /\ filter = None
    /\ pc = "get_status" /\ exit_code = -1
    /\ \E n \in 1..MaxPRs : prs = BotPRs(n)
    /\ res = NoRes /\ statuses = <<>> /\ most_recent = fold_init
    /\ with_status = <<>> /\ presented = <<>> /\ confirmation = NoConfirmation
    /\ idx = 1 /\ i = 0 /\ captured = <<>> /\ ct = 0 /\ sends = 0 /\ cur = 0
    /\ calls = <<>> /\ posts = <<>> /\ skipped = <<>> /\ wire = NoWire
    /\ out = "Running approvals"
    /\ NoJunk

NextStatus ==
    \/ GetStatusSend
    \/ GetStatusHandle(StatusLists)
    \/ StatusReturn

SpecStatus == InitStatus /\ [][NextStatus]_vars

----------------------------------------------------------------------------
(* Claims *)

SendStates == {"get_all_prs", "get_status", "post"}
ReturnedStates == {"got_all_prs", "got_status", "posted"}
InFlight == pc \in SendStates

(* C1: submit_approval called with dry_run = true sends no POST to the   *)
(* reviews endpoint, whatever the quiet flag is (quiet = true included). *)
C1_DryRunSendsNoPost == dry_run => posts = <<>>

(* Whether a typed index names a presentation position *)
InRange(selection) == selection >= 1 /\ selection <= Len(presented)

SelectDone ==
    /\ pc = "exit" /\ exit_code = 0
    /\ confirmation.kind = "Select"

(* C2: in the Select branch every typed index that is 0 or greater than  *)
(* the number of candidates submits no approval and is reported as       *)
(* skipped (unless quiet), and the remaining indices are still processed:*)
(* when the branch has run to its end, there is one approval per typed   *)
(* index in 1..n, and the skips reported are the other indices in order. *)
C2_InvalidIndicesSkipped ==
    SelectDone =>
        /\ Len(calls) = Len(SelectSeq(confirmation.selections, InRange))
        /\ ~quiet => skipped = SelectSeq(confirmation.selections,
                                         LAMBDA x : ~InRange(x))

RECURSIVE NumbersAt(_, _)
NumbersAt(list, positions) ==
    IF positions = <<>> THEN <<>>
    ELSE <<list[Head(positions)].pr.number>> \o NumbersAt(list, Tail(positions))

(* C3: in the Select branch the approvals submitted are those of the     *)
(* candidates at the typed presentation positions 1..n, in the order     *)
(* typed, and no candidate whose position was not typed gets one.        *)
C3_TypedPositionsApproved ==
    SelectDone =>
        calls = NumbersAt(presented, SelectSeq(confirmation.selections, InRange))

C5_StatusNeverRetried ==
    /\ wire.kind = "resp" =>
         /\ ~InFlight
         /\ res = OkRes(wire.status, sends)
    /\ (InFlight /\ sends >= 1) => wire = TransportError

C5_Witness ==
    /\ pc = "got_status" /\ wire = HttpResponse(500) /\ res = OkRes(500, 1)

(* What the prompt accepts, stated on the typed text itself *)
NonWs(s) == {k \in DOMAIN s : ~IsWhitespace(s[k])}
Min(S) == CHOOSE x \in S : \A y \in S : x <= y
Max(S) == CHOOSE x \in S : \A y \in S : x >= y
Core(s) == IF NonWs(s) = {} THEN <<>> ELSE SubSeq(s, Min(NonWs(s)), Max(NonWs(s)))
IsNumeral(tok) == tok # <<>> /\ \A k \in DOMAIN tok : tok[k] \in Digits
Cuts(s) == {0, Len(s) + 1} \cup {k \in DOMAIN s : s[k] = ","}
Pieces(s) ==
    {<<a, b>> \in Cuts(s) \X Cuts(s) :
        a < b /\ \A c \in Cuts(s) : ~(a < c /\ c < b)}
PieceText(s, p) == Core(SubSeq(s, p[1] + 1, p[2] - 1))
IsAllLine(s) == Core(s) = Str_all
IsIndexList(s) == \A p \in Pieces(s) : IsNumeral(PieceText(s, p))
Accepted(s) == IsAllLine(s) \/ IsIndexList(s)
(* The k-th piece of s, counted from the left *)
PieceAt(s, k) ==
    CHOOSE p \in Pieces(s) : Cardinality({q \in Pieces(s) : q[1] < p[1]}) = k - 1
TypedResult(s) ==
    IF IsAllLine(s) THEN ConfirmationAll
    ELSE ConfirmationSelect(
             [k \in 1..Cardinality(Pieces(s)) |->
                 DigitsValue(0, PieceText(s, PieceAt(s, k)))])

OneLine(buf) ==
    /\ buf # <<>> /\ buf[Len(buf)] = Newline
    /\ \A k \in 1..(Len(buf) - 1) : buf[k] # Newline

C6_Reads ==
    /\ pc = "confirm_read" =>
         /\ i <= 4 /\ captured = <<>> /\ confirmation = NoConfirmation
         /\ i >= 1 => out = "Unable to parse input"
    /\ pc = "confirm_translate" => i <= 4 /\ OneLine(captured)
    /\ (pc = "exit" /\ exit_code = 67) =>
         /\ i = 4 /\ OneLine(captured) /\ ~Accepted(captured)
         /\ calls = <<>> /\ posts = <<>>

C6_Step ==
    pc = "confirm_translate" =>
        IF Accepted(captured)
        THEN /\ pc' \in {"all_loop", "select_loop"}
             /\ confirmation' = TypedResult(captured)
        ELSE IF i < 4
        THEN pc' = "confirm_read" /\ i' = i + 1 /\ confirmation' = NoConfirmation
        ELSE pc' = "exit" /\ exit_code' = 67

(* C6: the prompt reads at most 5 lines; the first line that is "all"    *)
(* after trimming, or a comma-separated list of non-negative integers,   *)
(* ends it with the result parsed from that line alone; each of the      *)
(* first 4 unparseable lines is followed by another prompt; the 5th      *)
(* makes the process exit with status 67, with no approval submitted.    *)
C6_PromptReadsAtMostFiveLines == []C6_Reads /\ [][C6_Step]_vars

C6_Witness ==
    /\ pc = "select_loop" /\ idx = 1
    /\ confirmation = ConfirmationSelect(<<1, 3>>)
    /\ out = "Unable to parse input"

(* The status events that take part in the reduction *)
Qualifies(s) == status_username = None \/ s.creator = status_username[1]
Qual == {k \in DOMAIN statuses : Qualifies(statuses[k])}
Latest == {k \in Qual : \A j \in Qual : statuses[j].created_at <= statuses[k].created_at}

(* C7: get_latest_status returns the state of an event of maximal        *)
(* timestamp among the events of the reporting identity (all events when *)
(* none is given), for every timestamp, 1970-01-01 0:00 and earlier      *)
(* included.                                                             *)
C7_LatestIsMaxTimestamp ==
    pc = "status_return" =>
        IF Qual = {} THEN most_recent[2] = None
        ELSE \E k \in Latest : most_recent[2] = Some(statuses[k].state)

(* The same, for status lists whose latest qualifying event is later     *)
(* than 1970-01-01 0:00                                                  *)
LatestIsMaxTimestampAfterEpoch ==
    (pc = "status_return" /\ \E k \in Latest : statuses[k].created_at > 0) =>
        \E k \in Latest : most_recent[2] = Some(statuses[k].state)

(* C8: when two or more qualifying events share the maximal timestamp,   *)
(* the state returned is that of the first of them in list order.        *)
C8_FirstOfTiedWins ==
    (pc = "status_return" /\ Cardinality(Latest) >= 2) =>
        most_recent[2] = Some(statuses[Min(Latest)].state)

(* The same, for a shared maximal timestamp later than 1970-01-01 0:00 *)
FirstOfTiedWinsAfterEpoch ==
    (/\ pc = "status_return" /\ Cardinality(Latest) >= 2
     /\ \E k \in Latest : statuses[k].created_at > 0) =>
        most_recent[2] = Some(statuses[Min(Latest)].state)

C9_NoneWhenNothingQualifies ==
    (pc = "status_return" /\ Qual = {}) => most_recent[2] = None

C9_Step ==
    /\ (pc = "status_return" /\ Qual = {}) =>
         /\ with_status' = with_status
         /\ prs' = Tail(prs)
         /\ pc' = IF Tail(prs) = <<>> THEN "present" ELSE "get_status"
         /\ exit_code' = -1
    /\ with_status' # with_status =>
         /\ pc = "status_return" /\ Qual # {}
         /\ \E st \in States :
              with_status' = Append(with_status, Candidate(Head(prs), st))

(* C9: when no status event of a PR qualifies, get_latest_status returns *)
(* None, the PR is left out of the candidates without an error and the   *)
(* run goes on with the remaining PRs; a PR becomes a candidate only if  *)
(* one of its status events qualified.                                   *)
C9_UnqualifiedPRsDropped == []C9_NoneWhenNothingQualifies /\ [][C9_Step]_vars

C9_Witness ==
    /\ pc = "status_return" /\ Len(prs) = 2
    /\ statuses # <<>> /\ Qual = {} /\ most_recent[2] = None

(* The approvals a finished submit loop has called for *)
ExpectedCalls ==
    IF force \/ confirmation.kind = "All" THEN Len(presented)
    ELSE Len(SelectSeq(confirmation.selections,
                       LAMBDA x : Selected(presented, x) # None))

C10_Ends ==
    (pc = "exit" /\ calls # <<>>) =>
        \/ exit_code = 1 /\ res = ErrRes(5)
        \/ exit_code = 0 /\ Len(calls) = ExpectedCalls

C10_Step ==
    (pc = "posted" /\ res.ok /\ ~is_success(res.status)) =>
        pc' = Loop /\ idx' = idx + 1 /\ exit_code' = exit_code

(* C10: a non-2xx response to an approval POST does not abort the run:   *)
(* submit_approval returns Ok, the loop (force, All or Select) goes on   *)
(* to the next candidate, and a run that submitted anything ends either  *)
(* with every selected candidate submitted or on a transport failure.    *)
C10_Non2xxIsNotFatal == []C10_Ends /\ [][C10_Step]_vars

C10_Witness ==
    /\ ~force /\ confirmation.kind = "Select"
    /\ pc = "post" /\ Len(calls) = 2 /\ out = "Failed to approve"

----------------------------------------------------------------------------
(* C11: a non-2xx response to the GET of a PR's status collection ends   *)
(* the run without a status for that PR: whenever get_latest_status      *)
(* hands a status back (and the run goes on to the next PR, to the list  *)
(* or to approvals), the response it read had a 2xx status.              *)
C11_Non2xxStatusFetchIsFatal ==
    pc = "status_return" => is_success(res.status)

----------------------------------------------------------------------------
Numbers(list) == [k \in 1..Len(list) |-> list[k].pr.number]

IsPrefix(a, b) == Len(a) <= Len(b) /\ SubSeq(b, 1, Len(a)) = a

(* The requests behind a log of send attempts: the attempts of one       *)
(* request follow each other and carry the same PR                       *)
RECURSIVE Collapse(_)
Collapse(log) ==
    IF Len(log) <= 1 THEN log
    ELSE IF log[1] = log[2] THEN Collapse(Tail(log))
    ELSE <<log[1]>> \o Collapse(Tail(log))

ApproveEverything == force \/ confirmation.kind = "All"

C12_WitnessAll ==
    /\ ~force /\ confirmation.kind = "All" /\ pc = "exit" /\ exit_code = ExitOk
    /\ Len(presented) = 2 /\ Len(calls) = 2 /\ Len(posts) > 2

----------------------------------------------------------------------------
(* clear-junk: reviews and the junk filter *)

MaxReviews == 2

ReviewUsers == {"bot", "me"}
ReviewBodies == {<<>>, <<"s">>, <<"S">>, <<"s", "S">>, <<"S", "s">>}
LoginFilters == {None} \cup {Some(u) : u \in ReviewUsers}
TextFilters == {None, Some(<<>>), Some(<<"s">>), Some(<<"S">>), Some(<<"s", "S">>)}

Review(id, body, user) == [id |-> id, body |-> body, user |-> user]

ReviewLists ==
    UNION {{[k \in 1..n |-> Review(k, b[k], u[k])] :
               b \in [1..n -> ReviewBodies], u \in [1..n -> ReviewUsers]} :
           n \in 0..MaxReviews}

starts_with(s, p) == Len(p) <= Len(s) /\ SubSeq(s, 1, Len(p)) = p

(* str::contains: the pattern starts at some position of the string *)
RECURSIVE contains(_, _)
contains(s, p) ==
    IF starts_with(s, p) THEN TRUE
    ELSE IF s = <<>> THEN FALSE
    ELSE contains(Tail(s), p)

(* is_junk that takes a review matching either filter *)
is_junk_either(review, login, text) ==
    \/ login = None /\ text = None
    \/ login # None /\ login[1] = review.user
    \/ text # None /\ contains(review.body, text[1])

is_junk(review, login, text) ==
    IF login # None /\ login[1] # review.user THEN FALSE
    ELSE IF text # None /\ ~contains(review.body, text[1]) THEN FALSE
    ELSE TRUE

(* Lines 214-216: what find_junk_reviews returns for the parsed reviews *)
find_junk_reviews(list, login, text) ==
    SelectSeq(list, LAMBDA r : is_junk(r, login, text))

put_with_retry(c, outcome, attempt) ==
    IF outcome.kind = "resp"
    THEN [again |-> FALSE, ct |-> c, value |-> OkRes(outcome.status, attempt)]
    ELSE IF c + 1 >= MaxTries
         THEN [again |-> FALSE, ct |-> c + 1, value |-> ErrRes(attempt)]
         ELSE [again |-> TRUE, ct |-> c + 1, value |-> NoRes]

----------------------------------------------------------------------------
(* clear_junk_main *)

opts_username == "some-user"

approve_state == <<force, quiet, status_username, filter, statuses, most_recent,
                   with_status, presented, confirmation, confirm_locals, cur,
                   calls, posts, skipped>>

ClearGetToken ==
    /\ pc = "clear_get_token"
    /\ \E src \in TokenSources :
         IF src = "none" THEN Exit(ExitNoToken)
         ELSE IF src = "key_path_unreadable" THEN Exit(ExitErr)
         ELSE pc' = "get_own_prs" /\ exit_code' = exit_code
    /\ NewRequest
    /\ UNCHANGED <<approve_state, dry_run, prs, idx, out, junk>>

GetOwnPrsSend ==
    /\ pc = "get_own_prs"
    /\ \E o \in Outcomes :
         LET r == get_with_retry(ct, o, sends + 1)
         IN  /\ sends' = sends + 1 /\ wire' = o
             /\ ct' = r.ct /\ res' = r.value
             /\ pc' = IF r.again THEN pc ELSE "got_own_prs"
    /\ UNCHANGED <<approve_state, exit_code, dry_run, prs, idx, out, junk>>

(* The head of `for pr in prs` (line 158) for the PRs still to visit,    *)
(* and the todo!() of line 171 when there is none                        *)
ClearNextPr(rest) ==
    /\ prs' = rest
    /\ idx' = 1
    /\ IF rest = <<>> THEN
           /\ Exit(ExitPanic)
           /\ out' = "not yet implemented"
           /\ UNCHANGED request
       ELSE
           /\ pc' = "find_junk_reviews"
           /\ NewRequest
           /\ UNCHANGED <<exit_code, out>>

(* The rest of get_own_prs once get_all_prs has its response *)
GetOwnPrsHandle ==
    /\ pc = "got_own_prs"
    /\ \E body \in Bodies(PRLists) :
         IF ~res.ok THEN
             /\ Exit(ExitPanic)
             /\ UNCHANGED <<prs, idx, request, out>>
         ELSE IF ~is_success(res.status) THEN
             /\ Exit(ExitErr)
             /\ out' = "Failed to get pull requests"
             /\ UNCHANGED <<prs, idx, request>>
         ELSE IF body \in {ReadError, BadJson} THEN
             /\ Exit(ExitPanic)
             /\ UNCHANGED <<prs, idx, request, out>>
         ELSE
             ClearNextPr(SelectSeq(body.value,
                             LAMBDA pr : to_lowercase(pr.login) = opts_username))
    /\ UNCHANGED <<approve_state, dry_run, junk>>

FindJunkSend ==
    /\ pc = "find_junk_reviews"
    /\ \E o \in Outcomes :
         LET r == get_with_retry(ct, o, sends + 1)
         IN  /\ sends' = sends + 1 /\ wire' = o
             /\ ct' = r.ct /\ res' = r.value
             /\ pc' = IF r.again THEN pc ELSE "found_junk_reviews"
    /\ UNCHANGED <<approve_state, exit_code, dry_run, prs, idx, out, junk>>

(* find_junk_reviews from line 200 on, the `?` of line 159 and the head  *)
(* of `for review in reviews` (line 160)                                 *)
FindJunkHandle(lists) ==
    /\ pc = "found_junk_reviews"
    /\ \E body \in Bodies(lists) :
         IF ~res.ok THEN
             /\ Exit(ExitErr)
             /\ UNCHANGED <<prs, idx, request, out, fetched, reviews>>
         ELSE IF ~is_success(res.status) THEN
             /\ Exit(ExitErr)
             /\ out' = "Failed to get pull requests"
             /\ UNCHANGED <<prs, idx, request, fetched, reviews>>
         ELSE IF body \in {ReadError, BadJson} THEN
             /\ Exit(ExitErr)
             /\ UNCHANGED <<prs, idx, request, out, fetched, reviews>>
         ELSE
             LET found == find_junk_reviews(body.value, opts_login, opts_text)
             IN  /\ fetched' = body.value
                 /\ reviews' = found
                 /\ IF found = <<>> THEN ClearNextPr(Tail(prs))
                    ELSE /\ pc' = "put"
                         /\ idx' = 1
                         /\ NewRequest
                         /\ UNCHANGED <<exit_code, prs, out>>
    /\ UNCHANGED <<approve_state, dry_run, opts_login, opts_text, puts>>

(* How a dismissal request ended: 0 is a transport failure after the     *)
(* last attempt, -1 a request still being sent                           *)
Dismissal(pr, review, status) == [pr |-> pr, review |-> review, status |-> status]

(* One iteration of the loop of put_with_retry for the dismissal of      *)
(* lines 161-168                                                         *)
DismissSend ==
    /\ pc = "put"
    /\ \E o \in Outcomes :
         LET r == put_with_retry(ct, o, sends + 1)
             started == IF sends = 0
                        THEN Append(puts, Dismissal(Head(prs).number, reviews[idx].id, -1))
                        ELSE puts
         IN  /\ sends' = sends + 1 /\ wire' = o
             /\ ct' = r.ct /\ res' = r.value
             /\ pc' = IF r.again THEN pc ELSE "put_done"
             /\ puts' = IF r.again THEN started
                        ELSE [started EXCEPT ![Len(started)].status =
                                  IF r.value.ok THEN r.value.status ELSE 0]
    /\ UNCHANGED <<approve_state, exit_code, dry_run, prs, idx, out,
                   opts_login, opts_text, fetched, reviews>>

(* DismissHandle for a dismissal whose non-2xx response ends the run *)
DismissHandle_strict ==
    /\ pc = "put_done"
    /\ IF ~res.ok \/ ~is_success(res.status) THEN
           /\ Exit(ExitErr)
           /\ UNCHANGED <<prs, idx, request, out>>
       ELSE IF idx < Len(reviews) THEN
           /\ idx' = idx + 1
           /\ pc' = "put"
           /\ NewRequest
           /\ UNCHANGED <<exit_code, prs, out>>
       ELSE ClearNextPr(Tail(prs))
    /\ UNCHANGED <<approve_state, dry_run, junk>>

(* The `?` of line 168 and the two loop heads *)
DismissHandle ==
    /\ pc = "put_done"
    /\ IF ~res.ok THEN
           /\ Exit(ExitErr)
           /\ UNCHANGED <<prs, idx, request, out>>
       ELSE IF idx < Len(reviews) THEN
           /\ idx' = idx + 1
           /\ pc' = "put"
           /\ NewRequest
           /\ UNCHANGED <<exit_code, prs, out>>
       ELSE ClearNextPr(Tail(prs))
    /\ UNCHANGED <<approve_state, dry_run, junk>>

SampleReviewLists ==
    {<<>>,
     <<Review(1, <<"s">>, "bot")>>,
     <<Review(1, <<"s">>, "bot"), Review(2, <<"S">>, "me")>>,
     <<Review(1, <<"S", "s">>, "me"), Review(2, <<"s">>, "bot")>>}

InitClear ==
    /\ force = FALSE /\ quiet = FALSE /\ dry_run \in BOOLEAN
    /\ status_username = None /\ filter = None
    /\ pc = "clear_get_token" /\ exit_code = -1
    /\ prs = <<>> /\ statuses = <<>> /\ most_recent = fold_init
    /\ with_status = <<>> /\ presented = <<>>
    /\ confirmation = NoConfirmation
    /\ idx = 1 /\ i = 0 /\ captured = <<>>
    /\ res = NoRes /\ ct = 0 /\ sends = 0 /\ wire = NoWire
    /\ cur = 0 /\ calls = <<>> /\ posts = <<>> /\ skipped = <<>>
    /\ out = ""
    /\ opts_login \in {None, Some("bot")}
    /\ opts_text \in {None, Some(<<"s">>)}
    /\ fetched = <<>> /\ reviews = <<>> /\ puts = <<>>

NextClear ==
    \/ ClearGetToken
    \/ GetOwnPrsSend
    \/ GetOwnPrsHandle
    \/ FindJunkSend
    \/ FindJunkHandle(SampleReviewLists)
    \/ DismissSend
    \/ DismissHandle

SpecClear == InitClear /\ [][NextClear]_vars

(* find_junk_reviews alone, for one PR, over every list of reviews *)
InitJunk ==
    /\ force = FALSE /\ quiet = FALSE /\ dry_run = FALSE
    /\ status_username = None /\ filter = None
    /\ pc = "find_junk_reviews" /\ exit_code = -1
    /\ prs = <<PullRequest(1, "some-user")>>
    /\ statuses = <<>> /\ most_recent = fold_init
    /\ with_status = <<>> /\ presented = <<>>
    /\ confirmation = NoConfirmation
    /\ idx = 1 /\ i = 0 /\ captured = <<>>
    /\ res = NoRes /\ ct = 0 /\ sends = 0 /\ wire = NoWire
    /\ cur = 0 /\ calls = <<>> /\ posts = <<>> /\ skipped = <<>>
    /\ out = ""
    /\ opts_login \in LoginFilters
    /\ opts_text \in TextFilters
    /\ fetched = <<>> /\ reviews = <<>> /\ puts = <<>>

NextJunk ==
    \/ FindJunkSend
    \/ FindJunkHandle(ReviewLists)

SpecJunk == InitJunk /\ [][NextJunk]_vars

----------------------------------------------------------------------------
(* C13: a run that has terminated did so with exit code 0, 1 or 67      *)
(* (success, failure, no usable input); this covers the cleanup run that *)
(* got through every PR and every dismissal, which is to end with 0.     *)
C13_ExitCodes ==
    pc = "exit" => exit_code \in {ExitOk, ExitErr, ExitNoToken}

(* The end of a cleanup run in which every fetch and dismissal succeeded *)
C13_CleanupRanToTheEnd ==
    /\ pc = "exit" /\ out = "not yet implemented" /\ prs = <<>>
    /\ Len(puts) = 2 /\ \A k \in 1..Len(puts) : is_success(puts[k].status)

----------------------------------------------------------------------------
(* The text occurs in the body, character for character *)
Occurs(t, body) ==
    \E k \in 0..(Len(body) - Len(t)) : \A j \in 1..Len(t) : body[k + j] = t[j]

JunkByFilters(r) ==
    /\ opts_login = None \/ r.user = opts_login[1]
    /\ opts_text = None \/ Occurs(opts_text[1], r.body)

(* C14: is_junk is true of a fetched review exactly when the login       *)
(* filter is absent or equals its author and the text filter is absent   *)
(* or occurs in its body (case-sensitively); find_junk_reviews returns   *)
(* exactly the fetched reviews of which this holds, in fetched order,    *)
(* and every fetched review when neither filter is set.                  *)
C14_JunkFilter ==
    /\ \A k \in 1..Len(fetched) :
           is_junk(fetched[k], opts_login, opts_text) <=> JunkByFilters(fetched[k])
    /\ {reviews[k] : k \in 1..Len(reviews)}
           = {fetched[k] : k \in {j \in 1..Len(fetched) : JunkByFilters(fetched[j])}}
    /\ \A a, b \in 1..Len(reviews) : a < b => reviews[a].id < reviews[b].id
    /\ (opts_login = None /\ opts_text = None) => reviews = fetched

C14_Witness ==
    /\ pc = "put" /\ opts_login = Some("bot") /\ opts_text = Some(<<"s">>)
    /\ Len(fetched) = 2 /\ fetched[1].body = <<"S">> /\ fetched[1].user = "bot"
    /\ fetched[2].body = <<"S", "s">> /\ fetched[2].user = "bot"
    /\ reviews = <<fetched[2]>>

----------------------------------------------------------------------------
DiscoveryStates ==
    {"get_token", "get_all_prs", "got_all_prs", "get_status", "got_status",
     "status_return", "present"}

C15_Order ==
    /\ (calls # <<>> \/ posts # <<>>) => presented # <<>>
    /\ presented # <<>> => (prs = <<>> /\ pc \notin DiscoveryStates)

C15_Failure ==
    /\ (pc = "got_all_prs" /\ (~res.ok \/ ~is_success(res.status))) => pc' = "exit"
    /\ (pc = "got_status" /\ ~res.ok) => pc' = "exit"
    /\ (pc \in DiscoveryStates /\ pc' = "exit") =>
           (calls' = <<>> /\ posts' = <<>> /\ presented' = <<>>)

----------------------------------------------------------------------------
(* C16 as stated: once an approval has been submitted, every selected    *)
(* candidate gets its attempt, whatever happened to the others,          *)
(* transport failures included.                                          *)
C16_AllRemainingAttempted ==
    (pc = "exit" /\ calls # <<>>) => Len(calls) = ExpectedCalls

C16_Ends ==
    (pc = "exit" /\ Len(calls) < ExpectedCalls) =>
        (exit_code = ExitErr /\ res = ErrRes(MaxTries) /\ posts # <<>>)

C16_Step ==
    /\ (pc = "posted" /\ ~res.ok) =>
           (pc' = "exit" /\ exit_code' = ExitErr /\ calls' = calls /\ posts' = posts)
    /\ (pc = "posted" /\ res.ok) =>
           (pc' = Loop /\ idx' = idx + 1 /\ calls' = calls)

(* C16: a response to an approval POST, 2xx or not, lets the loop go on  *)
(* to the next selected candidate; a transport failure on all 5 attempts *)
(* of post_with_retry ends the run with exit code 1 and nothing further  *)
(* is attempted; this is the only way a run ends with selected           *)
(* candidates left unattempted.                                          *)
C16_OnlyTransportFailureStopsTheLoop == []C16_Ends /\ [][C16_Step]_vars

C16_Witness ==
    /\ pc = "exit" /\ exit_code = ExitErr /\ res = ErrRes(MaxTries)
    /\ Len(calls) = 1 /\ ExpectedCalls = 2 /\ Len(posts) = MaxTries

----------------------------------------------------------------------------
DismissalFailed == ~res.ok \/ ~is_success(res.status)

C17_Log ==
    \A k \in 1..Len(puts) :
        /\ puts[k].status = -1 => (k = Len(puts) /\ pc = "put")
        /\ puts[k].status = 0 => (k = Len(puts) /\ pc \in {"put_done", "exit"})

C17_Step ==
    /\ (pc = "put_done" /\ res.ok) =>
           /\ puts' = puts
           /\ IF idx < Len(reviews) THEN pc' = "put" /\ idx' = idx + 1 /\ prs' = prs
              ELSE IF Len(prs) > 1 THEN pc' = "find_junk_reviews" /\ prs' = Tail(prs)
              ELSE pc' = "exit"
    /\ (pc = "put_done" /\ ~res.ok) =>
           (pc' = "exit" /\ exit_code' = ExitErr /\ puts' = puts)

----------------------------------------------------------------------------
(* C18: whatever the operator types, no candidate has an approval        *)
(* submitted more than once in a run: without --dry-run, where every     *)
(* submit_approval call sends a POST, the PR numbers of the calls are    *)
(* pairwise different.                                                   *)
C18_NoCandidateApprovedTwice ==
    ~dry_run => \A a, b \in 1..Len(calls) : a # b => calls[a] # calls[b]

----------------------------------------------------------------------------
(* C19: a cleanup run started with --dry-run sends no dismissal PUT.     *)
C19_DryRunSendsNoPut ==
    dry_run => puts = <<>>

============================================================================
